---- MODULE Spec2Model ----
(***************************************************************************)
(* Model of the scrape / save / upload pipeline of 4sale_animals_scraping. *)
(*                                                                         *)
(*   main.py           NormalMainScraper: scrape_automotive (one category, *)
(*                     under the semaphore), save_to_excel,                *)
(*                     upload_files_with_retry, scrape_all_automotives     *)
(*   SavingOnDrive.py  get_folder_id, create_folder, save_files            *)
(*   DetailsScraper.py get_animal_details (the records of one list page,   *)
(*                     the record of one card), scrape_more_details,       *)
(*                     scrape_publish_date                                 *)
(*                                                                         *)
(* asyncio runs one coroutine at a time and switches only at an await that *)
(* suspends, so no action below spans a suspension; the synchronous parts  *)
(* of the orchestrator are split at statement boundaries.                  *)
(***************************************************************************)
EXTENDS Integers, Sequences, FiniteSets

\* ------------------------------------------------------------------ bounds

\* Number of categories in automotives_data (3 gives chunks of sizes [2,1]).
NumCategories == 3
\* Largest number of cards a list page returns.
MaxCards == 2
\* Largest page_count of a (url_template, page_count) pair.
MaxPages == 2
\* Largest number of (url_template, page_count) pairs of one category.
MaxPairs == 2
\* Largest number of categories, and largest chunk_size, the partition into
\* chunks is computed for (5 categories in chunks of 2 give sizes [2,2,1]).
MaxItems == 5
MaxChunkSize == 3

\* ------------------------------------------------------- program constants

\* main.py:15  self.chunk_size = 2
chunk_size == 2
\* main.py:16  self.max_concurrent_links = 2 (the attribute's default)
DefaultMaxConcurrentLinks == 2
\* main.py:21  self.upload_retries = 3
upload_retries == 3
\* DetailsScraper.py:279  retries = 3 (scrape_more_details)
retries == 3

\* ---------------------------------------------------------- Python values

\* Python's None and a Python str (a sequence of one-character strings).
None == <<"None">>
Str(s) == <<"str", s>>
IsNone(v) == v[1] = "None"

\* main.py:25  self.yesterday, the target date "%Y-%m-%d" (shortened to the
\* month and day: the year plays no part in any comparison below).
yesterday == <<"0", "6", "-", "0", "1">>

\* The values get_animal_details can put in 'date_published':
\*   None                     no relative date, or scrape_more_details gave {}
\*   "Invalid Relative Time"  DetailsScraper.py:137
\*   strftime("%Y-%m-%d %H:%M:%S") of the target day and of another day
InvalidRelativeTime ==
    Str(<<"I", "n", "v", "a", "l", "i", "d", " ", "R", "e", "l", "a", "t", "i", "v", "e",
          " ", "T", "i", "m", "e">>)
PublishedYesterday == Str(<<"0", "6", "-", "0", "1", " ", "1", "0", ":", "0", "0">>)
PublishedEarlier == Str(<<"0", "5", "-", "3", "1", " ", "2", "3", ":", "5", "9">>)
DateValues == {None, InvalidRelativeTime, PublishedYesterday, PublishedEarlier}
\* A site all of whose listings are of the target day or carry no date.
FreshDateValues == {None, PublishedYesterday}

\* A listing record as get_animal_details appends it; only the key the
\* pipeline reads is kept.
Animal(d) == [date_published |-> d]

RECURSIVE SeqsUpTo(_, _)
SeqsUpTo(S, n) ==
    IF n = 0 THEN {<<>>}
    ELSE LET shorter == SeqsUpTo(S, n - 1)
         IN  shorter \cup {Append(s, x) : s \in {t \in shorter : Len(t) = n - 1}, x \in S}

\* What one get_animal_details call can return on a site whose listings carry
\* the dates `dates`: any list of at most MaxCards records.
PageResultsOf == [dates \in SUBSET DateValues |-> SeqsUpTo({Animal(d) : d \in dates}, MaxCards)]

\* str.split() with no argument: the maximal runs of non-whitespace characters.
RECURSIVE SplitFrom(_, _, _, _)
SplitFrom(s, i, word, out) ==
    IF i > Len(s) THEN (IF word = <<>> THEN out ELSE Append(out, word))
    ELSE IF s[i] = " "
         THEN SplitFrom(s, i + 1, <<>>, IF word = <<>> THEN out ELSE Append(out, word))
         ELSE SplitFrom(s, i + 1, Append(word, s[i]), out)
Split(s) == SplitFrom(s, 1, <<>>, <<>>)

\* main.py:53  animal.get("date_published", "").split()[0] == self.yesterday
\* "raise": None has no split (AttributeError), [] has no [0] (IndexError).
\* Every record of get_animal_details has the key, so the default "" is never used.
\* Variant: the comparison with self.yesterday is lost: every dated record is kept.
DateTestKeepsAll(date_published) ==
    IF IsNone(date_published) THEN "raise"
    ELSE IF Split(date_published[2]) = <<>> THEN "raise" ELSE "keep"

DateTest(date_published) ==
    IF IsNone(date_published) THEN "raise"
    ELSE LET words == Split(date_published[2])
         IN  IF words = <<>> THEN "raise"
             ELSE IF words[1] = yesterday THEN "keep" ELSE "drop"
DateTests == [d \in DateValues |-> DateTest(d)]

\* main.py:51-54  the filter loop over one page's records; it stops at the
\* first record whose test raises, keeping what it appended before.
RECURSIVE FilterFrom(_, _, _)
FilterFrom(animals, i, data) ==
    IF i > Len(animals) THEN [animal_data |-> data, raised |-> FALSE]
    ELSE LET t == DateTests[animals[i].date_published]
         IN  IF t = "raise" THEN [animal_data |-> data, raised |-> TRUE]
             ELSE FilterFrom(animals, i + 1, IF t = "keep" THEN Append(data, animals[i]) ELSE data)
FilterPage(animals, data) == FilterFrom(animals, 1, data)

\* ------------------------------------------------------------------- state

VARIABLES
    automotives_data,      \* category -> its list of (url_template, page_count)
    site,                  \* the date_published values the site's listings yield
    max_concurrent_links,  \* capacity of the semaphore (main.py:16, main.py:132)
    pc,                    \* where scrape_all_automotives is
    folders,               \* Drive: ids of the folders named yesterday under the parent
    folder_id,             \* main.py:118-120, 0 while unset
    setup_errors,          \* what failed in the setup of main.py:108-124
    chunk_index,           \* main.py:134, 1-based
    task,                  \* category -> state of its scrape_automotive task
    semaphore,             \* value of asyncio.Semaphore (free slots)
    tasks,                 \* main.py:137 the chunk's (name, task) list, as categories
    awaited,               \* how many entries of tasks the loop of main.py:145 has done
    pending_uploads,       \* main.py:144
    disk,                  \* the local .xlsx files that exist, by category
    file_i,                \* upload_files_with_retry: index of `file` in files
    attempt,               \* upload_files_with_retry: `attempt` of the inner loop
    uploaded_files,        \* main.py:81
    save_calls,            \* save_files calls made so far for files[file_i]
    skipped,               \* attempts that found files[file_i] missing
    gave_up,               \* files of this chunk logged as failed (main.py:100)
    drive_files,           \* Drive: category -> number of files uploaded under its name
    file_rows,             \* category -> rows of its local .xlsx file, 0 when there is none
    drive_rows,            \* Drive: category -> rows of the file last uploaded under its name
    retained,              \* category -> how many records its task returned (history)
    faulted,               \* a file write failed, or a file was missing or given up (history)
    current_time,          \* datetime.now() as scrape_publish_date reads it
    k_pc,                  \* where the partition into chunks (main.py:127-130) is
    k_items,               \* list(self.automotives_data.items()), as category names
    k_chunk_size,          \* self.chunk_size
    k_chunks,              \* automotive_chunks
    d_pc,                  \* where one scrape_more_details call is
    d_attempt,             \* DetailsScraper.py:280 `attempt`
    d_step,                \* the extractor the attempt calls next
    d_fields,              \* the locals id, description, ... of the attempt
    d_result,              \* what scrape_more_details returned
    d_animals,             \* get_animal_details: the list `animals` (DetailsScraper.py:28)
    d_launched,            \* scrape_more_details: browsers launched so far (DetailsScraper.py:283)
    d_open,                \* scrape_more_details: the launched browsers still open
    g_pc,                  \* where one get_animal_details call is
    g_attempt,             \* DetailsScraper.py:31 `attempt`
    g_cards,               \* DetailsScraper.py:37 len(animal_cards)
    g_card,                \* DetailsScraper.py:38 position of `card` in animal_cards
    g_animals,             \* DetailsScraper.py:28 `animals`, as positions of cards
    g_page,                \* DetailsScraper.py:22, 79 the page `page` refers to
    g_opened,              \* pages opened so far by browser.new_page()
    g_pages,               \* the opened pages still open
    g_used,                \* the pages page.goto was called on (history)
    g_exit,                \* how the try statement of the attempt is left
    event                  \* what the last step did (observation only)

vars ==
    <<automotives_data, site, max_concurrent_links, pc, folders, folder_id, setup_errors,
      chunk_index, task, semaphore, tasks, awaited, pending_uploads, disk, file_i, attempt,
      uploaded_files, save_calls, skipped, gave_up, drive_files, file_rows, drive_rows,
      retained, faulted, current_time, k_pc, k_items, k_chunk_size, k_chunks,
      d_pc, d_attempt, d_step, d_fields, d_result, d_animals, d_launched, d_open,
      g_pc, g_attempt, g_cards, g_card, g_animals, g_page, g_opened, g_pages, g_used,
      g_exit, event>>

detailVars == <<d_pc, d_attempt, d_step, d_fields, d_result, d_animals, d_launched, d_open>>
pageVars ==
    <<g_pc, g_attempt, g_cards, g_card, g_animals, g_page, g_opened, g_pages, g_used, g_exit>>
chunkerVars == <<k_pc, k_items, k_chunk_size, k_chunks>>
fileVars == <<file_rows, drive_rows, retained, faulted>>

Categories == 1..NumCategories

\* One (url_template, page_count) pair. well_formed: whether url_template.format(page)
\* returns (a template such as "{}{}" or "{x}" raises IndexError / KeyError).
UrlPair(wf, n) == [well_formed |-> wf, page_count |-> n]
\* The lists of a run over all categories: one pair per category, as in
\* main.py:173-186, a template of one page (as most have there) or a
\* malformed one.
UrlLists == {<<UrlPair(TRUE, 1)>>, <<UrlPair(FALSE, 1)>>}
\* The lists of a run that walks one category: up to MaxPairs pairs, each a
\* template of MaxPages pages or a malformed one.
WalkerUrlLists == SeqsUpTo({UrlPair(TRUE, MaxPages), UrlPair(FALSE, 1)}, MaxPairs) \ {<<>>}

NoTask == [st |-> "none", u |-> 0, page |-> 0, animal_data |-> <<>>]

\* main.py:127-130  automotive_chunks: list(items())[i:i + chunk_size] for
\* i in range(0, len(automotives_data), chunk_size)
Min(a, b) == IF a < b THEN a ELSE b
Items == [j \in 1..NumCategories |-> j]
Slice(s, a, b) == SubSeq(s, a + 1, Min(b, Len(s)))
\* Variant: a start whose slice would be short is left out.
RECURSIVE RangeFromWhole(_, _, _)
RangeFromWhole(i, stop, step) ==
    IF i + step > stop THEN <<>> ELSE <<i>> \o RangeFromWhole(i + step, stop, step)

RECURSIVE RangeFrom(_, _, _)
RangeFrom(i, stop, step) == IF i >= stop THEN <<>> ELSE <<i>> \o RangeFrom(i + step, stop, step)
Chunks(items, size) ==
    LET starts == RangeFrom(0, Len(items), size)
    IN  [k \in 1..Len(starts) |-> Slice(items, starts[k], starts[k] + size)]
automotive_chunks == Chunks(Items, chunk_size)
NumChunks == Len(automotive_chunks)
ChunkOf(c) == CHOOSE k \in 1..NumChunks : \E j \in DOMAIN automotive_chunks[k] : automotive_chunks[k][j] = c

\* The state when scrape_all_automotives is called.
Started ==
    /\ pc = "setup"
    /\ folder_id = 0
    /\ setup_errors = {}
    /\ chunk_index = 0
    /\ task = [c \in Categories |-> NoTask]
    /\ semaphore = max_concurrent_links
    /\ tasks = <<>>
    /\ awaited = 0
    /\ pending_uploads = <<>>
    /\ disk = {}
    /\ file_i = 0
    /\ attempt = 0
    /\ uploaded_files = <<>>
    /\ save_calls = 0
    /\ skipped = 0
    /\ gave_up = {}
    /\ drive_files = [c \in Categories |-> 0]
    /\ file_rows = [c \in Categories |-> 0]
    /\ drive_rows = [c \in Categories |-> 0]
    /\ retained = [c \in Categories |-> 0]
    /\ faulted = FALSE
    /\ d_pc = "idle"
    /\ d_attempt = 0
    /\ d_step = 0
    /\ d_fields = <<>>
    /\ d_result = <<>>
    /\ d_animals = <<>>
    /\ d_launched = 0
    /\ d_open = {}
    /\ g_pc = "idle"
    /\ g_attempt = 0
    /\ g_cards = 0
    /\ g_card = 0
    /\ g_animals = <<>>
    /\ g_page = 0
    /\ g_opened = 0
    /\ g_pages = {}
    /\ g_used = {}
    /\ g_exit = "none"
    /\ event = [op |-> "none"]

\* A reading of the clock: 10:00:00 on the day after the target date.
Datetime(y, mo, d, h, mi, sec) ==
    [year |-> y, month |-> mo, day |-> d, hour |-> h, minute |-> mi, second |-> sec]
MorningAfter == Datetime(2025, 6, 2, 10, 0, 0)

\* The partition into chunks is that of the run: automotive_chunks above.
ChunkerIdle ==
    /\ k_pc = "idle"
    /\ k_items = Items
    /\ k_chunk_size = chunk_size
    /\ k_chunks = automotive_chunks

\* A run over NumCategories categories of one page each. max_concurrent_links
\* is an attribute a caller may set before the run: its default and below.
Init ==
    /\ automotives_data \in [Categories -> UrlLists]
    /\ site = FreshDateValues
    /\ max_concurrent_links \in 1..DefaultMaxConcurrentLinks
    /\ folders \in {{}, {1}}
    /\ current_time = MorningAfter
    /\ Started
    /\ ChunkerIdle

\* A run that walks one category of several pages, on a site with listings of
\* every kind of date; the other categories have no url_template at all.
InitWalker ==
    /\ automotives_data \in {[c \in Categories |-> IF c = 1 THEN urls ELSE <<>>] : urls \in WalkerUrlLists}
    /\ site = DateValues
    /\ max_concurrent_links = DefaultMaxConcurrentLinks
    /\ folders = {1}
    /\ current_time = MorningAfter
    /\ Started
    /\ ChunkerIdle

\* ------------------------------------------- scrape_automotive (one task)

\* The (pair, page) after (u, page) in the loops of main.py:45-46; u = 0 at the end.
NextPos(urls, u, page) ==
    IF u >= 1 /\ page < urls[u].page_count THEN [u |-> u, page |-> page + 1]
    ELSE IF u < Len(urls) THEN [u |-> u + 1, page |-> 1]
    ELSE [u |-> 0, page |-> 0]

\* Variant: leaving the guarded section gives no slot back.
ReleasedNot(slots) == slots

\* main.py:44  leaving `async with semaphore`, by the return of main.py:60 or
\* by an exception: the slot is given back.
Released(slots) == slots + 1

\* Running on from the end of one page to the next suspension, with `slots`
\* the semaphore's value while the task holds its slot: the loops end and the
\* task returns animal_data (main.py:60), or url_template.format(page) raises
\* and the exception leaves the task with its locals lost (main.py:47 is
\* outside the try), or get_animal_details is called for the next page
\* (main.py:50). Leaving `async with semaphore` releases the slot either way.
Advance(c, u, page, data, slots) ==
    LET urls == automotives_data[c]
        pos == NextPos(urls, u, page)
    IN  IF pos.u = 0
        THEN /\ task' = [task EXCEPT ![c] = [st |-> "done", u |-> 0, page |-> 0, animal_data |-> data]]
             /\ semaphore' = Released(slots)
        ELSE IF ~urls[pos.u].well_formed
        THEN /\ task' = [task EXCEPT ![c] = [st |-> "failed", u |-> 0, page |-> 0, animal_data |-> <<>>]]
             /\ semaphore' = Released(slots)
        ELSE /\ task' = [task EXCEPT ![c] = [st |-> "fetch", u |-> pos.u, page |-> pos.page, animal_data |-> data]]
             /\ semaphore' = slots

\* Variant: the task enters without waiting for a slot.
CanAcquireAlways == TRUE

\* main.py:44  `async with semaphore`: a slot is free.
CanAcquire == semaphore > 0

UnchangedByTask ==
    UNCHANGED <<automotives_data, site, max_concurrent_links, pc, folders, folder_id, setup_errors,
                chunk_index, tasks, awaited, pending_uploads, disk, file_i, attempt,
                uploaded_files, save_calls, skipped, gave_up, drive_files, fileVars,
                current_time, chunkerVars, detailVars, pageVars>>

\* main.py:41-50  the task starts, takes a slot and reaches its first page.
Acquire(c) ==
    /\ task[c].st = "waiting"
    /\ CanAcquire
    /\ Advance(c, 0, 0, <<>>, semaphore - 1)
    /\ event' = [op |-> "acquire", c |-> c]
    /\ UnchangedByTask

\* Variant: the except clause of the page ends the task instead of continuing.
AfterPageErrorAborts(c, data) ==
    /\ task' = [task EXCEPT ![c] = [st |-> "failed", u |-> 0, page |-> 0, animal_data |-> <<>>]]
    /\ semaphore' = semaphore + 1

\* main.py:56-58  `except Exception` logs and continues with the next page:
\* page_delay is not slept (main.py:55 is inside the try, after the filter).
AfterPageError(c, data) == Advance(c, task[c].u, task[c].page, data, semaphore)

\* main.py:50-58  get_animal_details returns `animals`; the filter loop runs.
\* If it raised, the except clause continues with the next page (no sleep);
\* otherwise the task sleeps page_delay.
PageReturns(c) ==
    /\ task[c].st = "fetch"
    /\ \E animals \in PageResultsOf[site] :
          LET r == FilterPage(animals, task[c].animal_data)
          IN  /\ IF r.raised
                 THEN AfterPageError(c, r.animal_data)
                 ELSE /\ task' = [task EXCEPT ![c].st = "sleep", ![c].animal_data = r.animal_data]
                      /\ UNCHANGED semaphore
              /\ event' = [op |-> "page", c |-> c, u |-> task[c].u, page |-> task[c].page,
                           animals |-> animals, before |-> task[c].animal_data,
                           after |-> r.animal_data, raised |-> r.raised]
    /\ UnchangedByTask

\* main.py:50, 56-58  get_animal_details raises (the browser cannot be
\* launched, a page cannot be opened or closed): the page is skipped.
PageRaises(c) ==
    /\ task[c].st = "fetch"
    /\ AfterPageError(c, task[c].animal_data)
    /\ event' = [op |-> "page_error", c |-> c, u |-> task[c].u, page |-> task[c].page,
                 before |-> task[c].animal_data]
    /\ UnchangedByTask

\* main.py:55  the page_delay sleep ends.
SleepEnds(c) ==
    /\ task[c].st = "sleep"
    /\ Advance(c, task[c].u, task[c].page, task[c].animal_data, semaphore)
    /\ event' = [op |-> "slept", c |-> c]
    /\ UnchangedByTask

\* ------------------------------------------------------- SavingOnDrive

\* SavingOnDrive.py:28-48  get_folder_id: the values it can return, 0 for None.
\* files[0] is any of the folders of that name; an exception of the query is
\* caught and None is returned.
get_folder_id(query_raises) ==
    IF query_raises THEN {0}
    ELSE IF folders = {} THEN {0} ELSE folders

\* SavingOnDrive.py:51-68  create_folder: the id Drive gives the new folder.
NewFolderId == Cardinality(folders) + 1

\* ------------------------------------------------ scrape_all_automotives

UnchangedByRun ==
    UNCHANGED <<automotives_data, site, max_concurrent_links, current_time, chunkerVars,
                detailVars, pageVars>>

\* main.py:134  entering the chunk loop at chunk k, or leaving it.
EnterChunk(k) ==
    IF k <= NumChunks
    THEN /\ chunk_index' = k
         /\ pc' = "spawn"
    ELSE /\ UNCHANGED chunk_index
         /\ pc' = "done"

\* main.py:105-132  the setup: credentials, authenticate, resolve the folder.
Setup ==
    /\ pc = "setup"
    /\ \E cred \in BOOLEAN, auth_ok \in BOOLEAN, query_raises \in BOOLEAN, create_ok \in BOOLEAN :
          IF ~cred \/ ~auth_ok
          THEN \* main.py:112 / main.py:115 raise, main.py:122-124 return
               /\ setup_errors' = {IF ~cred THEN "credentials" ELSE "authenticate"}
               /\ pc' = "aborted"
               /\ event' = [op |-> "setup", existing |-> folders, create_folder |-> FALSE]
               /\ UNCHANGED <<folders, folder_id, chunk_index>>
          ELSE \E found \in get_folder_id(query_raises) :
                  IF found # 0
                  THEN /\ folder_id' = found
                       /\ setup_errors' = {}
                       /\ EnterChunk(1)
                       /\ event' = [op |-> "setup", existing |-> folders, create_folder |-> FALSE]
                       /\ UNCHANGED folders
                  ELSE /\ event' = [op |-> "setup", existing |-> folders, create_folder |-> TRUE]
                       /\ IF create_ok
                          THEN /\ folders' = folders \cup {NewFolderId}
                               /\ folder_id' = NewFolderId
                               /\ setup_errors' = IF query_raises THEN {"get_folder_id"} ELSE {}
                               /\ EnterChunk(1)
                          ELSE /\ setup_errors' =
                                     (IF query_raises THEN {"get_folder_id"} ELSE {}) \cup {"create_folder"}
                               /\ pc' = "aborted"
                               /\ UNCHANGED <<folders, folder_id, chunk_index>>
    /\ UNCHANGED <<task, semaphore, tasks, awaited, pending_uploads, disk, file_i, attempt,
                   uploaded_files, save_calls, skipped, gave_up, drive_files, fileVars>>
    /\ UnchangedByRun

\* main.py:138-142  create_task for the next category of the chunk, then the
\* 2 s stagger sleep; after the last one the loop of main.py:145 starts.
SpawnTask ==
    /\ pc = "spawn"
    /\ LET chunk == automotive_chunks[chunk_index]
           c == chunk[Len(tasks) + 1]
       IN  /\ task' = [task EXCEPT ![c].st = "waiting"]
           /\ tasks' = Append(tasks, c)
           /\ pc' = IF Len(tasks) + 1 = Len(chunk) THEN "await" ELSE "spawn"
           /\ event' = [op |-> "create_task", c |-> c]
    /\ UNCHANGED <<folders, folder_id, setup_errors, chunk_index, semaphore, awaited,
                   pending_uploads, disk, file_i, attempt, uploaded_files, save_calls, skipped,
                   gave_up, drive_files, fileVars>>
    /\ UnchangedByRun

\* Variant: the task is not awaited: its result is read at once.
TaskFinishedNoWait(c) == task[c].st # "none"

\* main.py:147  `await task` returns or raises: the task is over.
TaskFinished(c) == task[c].st \in {"done", "failed"}

\* Variant: the exception of a task is not caught by the loop over tasks.
TaskErrorPropagates == FALSE

\* main.py:146, 152-153  `except Exception` around `await task` catches what
\* the task raised (the IndexError or KeyError of str.format).
TaskErrorCaught == TRUE

\* main.py:155-156  after the last task of the chunk: upload_files_with_retry
\* is called (main.py:81), or there is nothing to upload.
AfterTasks(pending) ==
    IF pending # <<>>
    THEN /\ pc' = "upload"
         /\ file_i' = 1
    ELSE /\ pc' = "chunk_end"
         /\ UNCHANGED file_i

\* Variant: a file is written whether or not there are records.
HasDataAlways(animal_data) == TRUE

\* main.py:64  `if not animal_data: return None` of save_to_excel.
HasData(animal_data) == animal_data # <<>>

\* Variant: only the first record is written.
RowsFirstOnly(animal_data) == 1

\* main.py:71-72  pd.DataFrame(animal_data).to_excel: one row per record.
Rows(animal_data) == Len(animal_data)

\* Variant: the loop over tasks is left after its first turn.
AllAwaitedEarly(n) == n >= 1

\* main.py:145  the loop `for automotive_name, task in tasks` is through
\* after n turns.
AllAwaited(n) == n = Len(tasks)

\* main.py:145-153  one turn of the loop over tasks: the task's result, then
\* save_to_excel (main.py:63-77) when there are records, which writes one row
\* per record. A task that raised is logged (main.py:152-153); were its
\* exception not caught, it would end scrape_all_automotives. The result is
\* taken out of the finished task.
AwaitTask ==
    /\ pc = "await"
    /\ LET c == tasks[awaited + 1]
           animal_data == task[c].animal_data
       IN  /\ TaskFinished(c)
           /\ IF task[c].st = "failed" /\ ~TaskErrorCaught
              THEN /\ pc' = "crashed"
                   /\ event' = [op |-> "crashed", c |-> c]
                   /\ UNCHANGED <<disk, pending_uploads, awaited, file_i, task, fileVars>>
              ELSE /\ \E write_ok \in BOOLEAN :
                         LET written == task[c].st = "done" /\ HasData(animal_data)
                             saved == written /\ write_ok
                             pending == IF saved THEN Append(pending_uploads, c) ELSE pending_uploads
                         IN  /\ disk' = IF saved THEN disk \cup {c} ELSE disk
                             /\ file_rows' = IF saved THEN [file_rows EXCEPT ![c] = Rows(animal_data)]
                                              ELSE file_rows
                             /\ pending_uploads' = pending
                             /\ awaited' = awaited + 1
                             /\ IF AllAwaited(awaited + 1)
                                THEN AfterTasks(pending)
                                ELSE UNCHANGED <<pc, file_i>>
                             /\ faulted' = (faulted \/ (written /\ ~write_ok))
                             /\ event' = [op |-> "awaited", c |-> c, st |-> task[c].st,
                                          animal_data |-> animal_data, write_ok |-> write_ok,
                                          excel_file |-> IF saved THEN c ELSE 0]
                   /\ retained' = [retained EXCEPT ![c] = Len(animal_data)]
                   /\ task' = [task EXCEPT ![c].animal_data = <<>>]
                   /\ UNCHANGED drive_rows
    /\ UNCHANGED <<folders, folder_id, setup_errors, chunk_index, semaphore, tasks, attempt,
                   uploaded_files, save_calls, skipped, gave_up, drive_files>>
    /\ UnchangedByRun

\* ------------------------------------------------ upload_files_with_retry

\* Variant: the attempt loop is one turn short.
InRangeOneShort(a) == a < upload_retries - 1

\* main.py:84  `for attempt in range(self.upload_retries)`: attempt a is in range.
InRange(a) == a < upload_retries

\* Variant: the sleep and the re-authentication follow every failed attempt.
HasMoreAttemptsAlways(a) == TRUE

\* main.py:93  `attempt < self.upload_retries - 1`
HasMoreAttempts(a) == a < upload_retries - 1

\* main.py:83-84  the loops move on: the next attempt for the same file, or
\* the next file, or the return of uploaded_files (main.py:102).
NextFile ==
    /\ attempt' = 0
    /\ save_calls' = 0
    /\ skipped' = 0
    /\ file_i' = file_i + 1
    /\ pc' = IF file_i + 1 > Len(pending_uploads) THEN "cleanup" ELSE "upload"

NextAttempt(calls, misses) ==
    IF InRange(attempt + 1)
    THEN /\ attempt' = attempt + 1
         /\ save_calls' = calls
         /\ skipped' = misses
         /\ UNCHANGED <<file_i, pc>>
    ELSE NextFile

\* Variant: the attempt loop is not left after a successful upload.
AfterUploadNoBreak == NextAttempt(save_calls + 1, skipped)

\* main.py:90  `break`: the attempt loop is left after a successful upload.
AfterUpload == NextFile

\* Variant: the file is taken to be there without looking.
existsAlways(file) == TRUE

\* main.py:86  os.path.exists(file)
exists(file) == file \in disk

\* main.py:84-100  one turn of the attempt loop for files[file_i]. save_files
\* raises when Drive fails, and when the file is not there to be opened
\* (SavingOnDrive.py:71-91, MediaFileUpload).
UploadAttempt ==
    /\ pc = "upload"
    /\ LET file == pending_uploads[file_i]
           Event(outcome, calls, misses, slept, reauth, logged) ==
               [op |-> "upload", file |-> file, file_i |-> file_i, attempt |-> attempt,
                on_disk |-> file \in disk, outcome |-> outcome, save_calls |-> calls,
                skipped |-> misses, slept |-> slept, reauth |-> reauth, logged_failed |-> logged]
       IN  \E save_ok \in BOOLEAN, auth_ok \in BOOLEAN :
              IF ~exists(file)
              THEN \* main.py:86 is false: nothing is called, nothing is raised
                   /\ NextAttempt(save_calls, skipped + 1)
                   /\ event' = Event("missing", save_calls, skipped + 1, FALSE, "none", FALSE)
                   /\ faulted' = TRUE
                   /\ UNCHANGED <<drive_files, drive_rows, uploaded_files, gave_up>>
              ELSE IF save_ok /\ file \in disk
              THEN \* main.py:87-90
                   /\ drive_files' = [drive_files EXCEPT ![file] = @ + 1]
                   /\ drive_rows' = [drive_rows EXCEPT ![file] = file_rows[file]]
                   /\ uploaded_files' = Append(uploaded_files, file)
                   /\ AfterUpload
                   /\ event' = Event("ok", save_calls + 1, skipped, FALSE, "none", FALSE)
                   /\ UNCHANGED <<gave_up, faulted>>
              ELSE \* main.py:91-100
                   /\ IF HasMoreAttempts(attempt)
                      THEN /\ UNCHANGED <<gave_up, faulted>>
                           /\ event' = Event("raise", save_calls + 1, skipped, TRUE,
                                             IF auth_ok THEN "ok" ELSE "raise", FALSE)
                      ELSE /\ gave_up' = gave_up \cup {file}
                           /\ faulted' = TRUE
                           /\ event' = Event("raise", save_calls + 1, skipped, FALSE, "none", TRUE)
                   /\ NextAttempt(save_calls + 1, skipped)
                   /\ UNCHANGED <<drive_files, drive_rows, uploaded_files>>
    /\ UNCHANGED <<folders, folder_id, setup_errors, chunk_index, task, semaphore, tasks,
                   awaited, pending_uploads, disk, file_rows, retained>>
    /\ UnchangedByRun

\* main.py:158-163  os.remove for every file of pending_uploads; a file that
\* is not there raises, which is caught.
Cleanup ==
    /\ pc = "cleanup"
    /\ LET files == {pending_uploads[i] : i \in DOMAIN pending_uploads}
       IN  /\ disk' = disk \ files
           /\ file_rows' = [c \in Categories |-> IF c \in files THEN 0 ELSE file_rows[c]]
           /\ event' = [op |-> "cleanup", removed |-> files \cap disk]
    /\ pc' = "chunk_end"
    /\ UNCHANGED <<folders, folder_id, setup_errors, chunk_index, task, semaphore, tasks,
                   awaited, pending_uploads, file_i, attempt, uploaded_files, save_calls,
                   skipped, gave_up, drive_files, drive_rows, retained, faulted>>
    /\ UnchangedByRun

\* main.py:165-168, 134-144  the chunk_delay sleep and the next chunk with
\* its fresh tasks and pending_uploads, or the end of the run.
ChunkEnd ==
    /\ pc = "chunk_end"
    /\ tasks' = <<>>
    /\ awaited' = 0
    /\ pending_uploads' = <<>>
    /\ uploaded_files' = <<>>
    /\ gave_up' = {}
    /\ file_i' = 0
    /\ EnterChunk(chunk_index + 1)
    /\ event' = [op |-> "chunk_end", chunk |-> chunk_index]
    /\ UNCHANGED <<folders, folder_id, setup_errors, task, semaphore, disk, attempt,
                   save_calls, skipped, drive_files, fileVars>>
    /\ UnchangedByRun

\* The environment: a written file is deleted by something other than this
\* program before the run is through with it (what main.py:86 guards against).
FileVanishes(f) ==
    /\ pc \in {"await", "upload"}
    /\ f \in disk
    /\ disk' = disk \ {f}
    /\ file_rows' = [file_rows EXCEPT ![f] = 0]
    /\ event' = [op |-> "vanished", file |-> f]
    /\ UNCHANGED <<pc, folders, folder_id, setup_errors, chunk_index, task, semaphore, tasks,
                   awaited, pending_uploads, file_i, attempt, uploaded_files, save_calls,
                   skipped, gave_up, drive_files, drive_rows, retained, faulted>>
    /\ UnchangedByRun

\* ------------------------------------------------------ scrape_publish_date

\* DetailsScraper.py:155  the string of the else branch of the unit table.
UnsupportedTimeUnit ==
    Str(<<"U", "n", "s", "u", "p", "p", "o", "r", "t", "e", "d", " ", "t", "i", "m", "e", " ", "u", "n", "i", "t", " ", "f", "o", "u", "n", "d", ".">>)

\* Characters: one-character strings; an Arabic letter is written by its name.
DigitChars == <<"0", "1", "2", "3", "4", "5", "6", "7", "8", "9">>
UpperCase == <<"A", "B", "C", "D", "E", "F", "G", "H", "I", "J", "K", "L", "M", "N", "O", "P", "Q", "R", "S", "T", "U", "V", "W", "X", "Y", "Z">>
LowerCase == <<"a", "b", "c", "d", "e", "f", "g", "h", "i", "j", "k", "l", "m", "n", "o", "p", "q", "r", "s", "t", "u", "v", "w", "x", "y", "z">>
\* \d of the pattern, and \s: the texts below hold no other whitespace than " ".
Digits == {DigitChars[i] : i \in DOMAIN DigitChars}
Whitespace == {" "}
\* str.lower() and re.IGNORECASE on one character.
Lower(ch) ==
    IF \E i \in DOMAIN UpperCase : UpperCase[i] = ch
    THEN LowerCase[CHOOSE i \in DOMAIN UpperCase : UpperCase[i] = ch]
    ELSE ch
LowerStr(s) == [i \in 1..Len(s) |-> Lower(s[i])]
\* int() of a run of digits.
RECURSIVE ToInt(_)
ToInt(ds) ==
    IF ds = <<>> THEN 0
    ELSE 10 * ToInt(SubSeq(ds, 1, Len(ds) - 1))
         + (CHOOSE i \in DOMAIN DigitChars : DigitChars[i] = ds[Len(ds)]) - 1

\* DetailsScraper.py:134  the alternation of the pattern, in its order:
\* Second|Minute|Hour|Day|Month and the Arabic month, second, minute, hour, day.
PatternUnits ==
    <<<<"S", "e", "c", "o", "n", "d">>, <<"M", "i", "n", "u", "t", "e">>, <<"H", "o", "u", "r">>,
      <<"D", "a", "y">>, <<"M", "o", "n", "t", "h">>,
      <<"SHEEN", "HEH", "REH">>, <<"THEH", "ALEF", "NOON", "YEH", "TEH_MARBUTA">>,
      <<"DAL", "QAF", "YEH", "QAF", "TEH_MARBUTA">>, <<"SEEN", "ALEF", "AIN", "TEH_MARBUTA">>, <<"YEH", "WAW", "MEEM">>>>

\* The index after the run of characters of the set chars that starts at i.
RECURSIVE RunEnd(_, _, _)
RunEnd(s, i, chars) == IF i <= Len(s) /\ s[i] \in chars THEN RunEnd(s, i + 1, chars) ELSE i

\* Whether word w stands in s at position i, ignoring case.
StandsAt(s, i, w) ==
    /\ i + Len(w) - 1 <= Len(s)
    /\ \A k \in 1..Len(w) : Lower(s[i + k - 1]) = Lower(w[k])

NoMatch == [matched |-> FALSE, group1 |-> <<>>, group2 |-> <<>>]

\* The match of (\d+)\s+(unit) that starts at i: \d+ takes the whole run of
\* digits and \s+ the whole run of whitespace (neither a digit nor a blank
\* begins what follows them), then the first alternative that stands there.
MatchAt(s, i) ==
    LET j == RunEnd(s, i, Digits)
        k == RunEnd(s, j, Whitespace)
        alts == {n \in DOMAIN PatternUnits : StandsAt(s, k, PatternUnits[n])}
    IN  IF j = i \/ k = j \/ alts = {} THEN NoMatch
        ELSE LET n == CHOOSE a \in alts : \A b \in alts : a <= b
             IN  [matched |-> TRUE, group1 |-> SubSeq(s, i, j - 1),
                  group2 |-> SubSeq(s, k, k + Len(PatternUnits[n]) - 1)]

\* DetailsScraper.py:135  re.search: the match at the leftmost position that has one.
re_search(s) ==
    LET starts == {i \in 1..Len(s) : MatchAt(s, i).matched}
    IN  IF starts = {} THEN NoMatch
        ELSE MatchAt(s, CHOOSE i \in starts : \A j \in starts : i <= j)

\* DetailsScraper.py:144-155  the unit table: what is subtracted from now.
UnitKind(unit) ==
    CASE unit \in {<<"s", "e", "c", "o", "n", "d">>, <<"THEH", "ALEF", "NOON", "YEH", "TEH_MARBUTA">>} -> "seconds"
      [] unit \in {<<"m", "i", "n", "u", "t", "e">>, <<"DAL", "QAF", "YEH", "QAF", "TEH_MARBUTA">>} -> "minutes"
      [] unit \in {<<"h", "o", "u", "r">>, <<"SEEN", "ALEF", "AIN", "TEH_MARBUTA">>} -> "hours"
      [] unit \in {<<"d", "a", "y">>, <<"YEH", "WAW", "MEEM">>} -> "days"
      [] unit \in {<<"m", "o", "n", "t", "h">>, <<"SHEEN", "HEH", "REH">>} -> "months"
      [] OTHER -> "unsupported"

\* The clock readings the conversion is tried at: a morning in June, half a
\* minute into the first of March, the last second of a 31st of March in a
\* leap year, and the first second of a year.
Nows ==
    {MorningAfter, Datetime(2025, 3, 1, 0, 0, 30), Datetime(2024, 3, 31, 23, 59, 59),
     Datetime(2025, 1, 1, 0, 0, 0)}

\* The proleptic Gregorian calendar of datetime.
IsLeap(y) == (y % 4 = 0 /\ y % 100 # 0) \/ y % 400 = 0
DaysInMonth(y, mo) ==
    IF mo = 2 THEN (IF IsLeap(y) THEN 29 ELSE 28)
    ELSE IF mo \in {4, 6, 9, 11} THEN 30 ELSE 31
PrevDay(t) ==
    IF t.day > 1 THEN [t EXCEPT !.day = @ - 1]
    ELSE IF t.month > 1
         THEN [t EXCEPT !.month = @ - 1, !.day = DaysInMonth(t.year, t.month - 1)]
         ELSE [t EXCEPT !.year = @ - 1, !.month = 12, !.day = 31]

\* DetailsScraper.py:151  current_time - timedelta(days=number)
RECURSIVE MinusDays(_, _)
MinusDays(t, number) == IF number = 0 THEN t ELSE MinusDays(PrevDay(t), number - 1)

\* Variant: the time of day stops at midnight instead of borrowing a day.
MinusSecondsNoBorrow(t, number) ==
    LET left == t.hour * 3600 + t.minute * 60 + t.second - number
        r == IF left < 0 THEN 0 ELSE left
    IN  [t EXCEPT !.hour = r \div 3600, !.minute = (r % 3600) \div 60, !.second = r % 60]

\* DetailsScraper.py:145  current_time - timedelta(seconds=number): the days
\* the time of day falls short by are taken from the date.
MinusSeconds(t, number) ==
    LET left == t.hour * 3600 + t.minute * 60 + t.second - number
        days == IF left >= 0 THEN 0 ELSE (86399 - left) \div 86400
        r == left + days * 86400
    IN  [MinusDays(t, days) EXCEPT !.hour = r \div 3600, !.minute = (r % 3600) \div 60,
                                   !.second = r % 60]

\* DetailsScraper.py:153  current_time - relativedelta(months=number): the
\* month `number` months back, the day cut to that month's last day.
MinusMonths(t, number) ==
    LET months == t.year * 12 + (t.month - 1) - number
        y == months \div 12
        mo == (months % 12) + 1
    IN  [t EXCEPT !.year = y, !.month = mo, !.day = Min(t.day, DaysInMonth(y, mo))]

\* DetailsScraper.py:144-153  publish_time for a unit of the table.
PublishTime(kind, number) ==
    CASE kind = "seconds" -> MinusSeconds(current_time, number)
      [] kind = "minutes" -> MinusSeconds(current_time, 60 * number)
      [] kind = "hours" -> MinusSeconds(current_time, 3600 * number)
      [] kind = "days" -> MinusDays(current_time, number)
      [] kind = "months" -> MinusMonths(current_time, number)

\* A number in `width` digits, zero-padded (%Y, %m, %d, %H, %M, %S).
RECURSIVE Padded(_, _)
Padded(n, width) ==
    IF width = 0 THEN <<>> ELSE Padded(n \div 10, width - 1) \o <<DigitChars[(n % 10) + 1]>>

\* DetailsScraper.py:157  publish_time.strftime("%Y-%m-%d %H:%M:%S")
Strftime(t) ==
    Str(Padded(t.year, 4) \o <<"-">> \o Padded(t.month, 2) \o <<"-">> \o Padded(t.day, 2) \o <<" ">>
        \o Padded(t.hour, 2) \o <<":">> \o Padded(t.minute, 2) \o <<":">> \o Padded(t.second, 2))

\* DetailsScraper.py:133-157
scrape_publish_date(relative_time) ==
    LET match == re_search(relative_time)
    IN  IF ~match.matched THEN InvalidRelativeTime
        ELSE LET number == ToInt(match.group1)
                 unit == LowerStr(match.group2)
             IN  IF UnitKind(unit) = "unsupported" THEN UnsupportedTimeUnit
                 ELSE Strftime(PublishTime(UnitKind(unit), number))

\* The texts scrape_relative_date (DetailsScraper.py:113-130) can return,
\* " ago" removed and stripped, by name; "" is what is left of " ago".
RelativeTimes ==
    {"3 Days", "12 HOURS", "1 minute", "5  Month", "1 month", "40 Second", "about 4 Day", "2 Weeks", "1 Year", "3Days", "Just now", "Day 3", "", "3 YAWM"}
CharsOf(text) ==
    CASE text = "3 Days" -> <<"3", " ", "D", "a", "y", "s">>
      [] text = "12 HOURS" -> <<"1", "2", " ", "H", "O", "U", "R", "S">>
      [] text = "1 minute" -> <<"1", " ", "m", "i", "n", "u", "t", "e">>
      [] text = "5  Month" -> <<"5", " ", " ", "M", "o", "n", "t", "h">>
      [] text = "1 month" -> <<"1", " ", "m", "o", "n", "t", "h">>
      [] text = "40 Second" -> <<"4", "0", " ", "S", "e", "c", "o", "n", "d">>
      [] text = "about 4 Day" -> <<"a", "b", "o", "u", "t", " ", "4", " ", "D", "a", "y">>
      [] text = "2 Weeks" -> <<"2", " ", "W", "e", "e", "k", "s">>
      [] text = "1 Year" -> <<"1", " ", "Y", "e", "a", "r">>
      [] text = "3Days" -> <<"3", "D", "a", "y", "s">>
      [] text = "Just now" -> <<"J", "u", "s", "t", " ", "n", "o", "w">>
      [] text = "Day 3" -> <<"D", "a", "y", " ", "3">>
      [] text = "" -> <<>>
      [] text = "3 YAWM" -> <<"3", " ", "YEH", "WAW", "MEEM">>

\* ---------------------------------------------------- scrape_more_details

\* DetailsScraper.py:287-297  the extractors, in the order they are called.
Extractors ==
    <<"id", "description", "image", "price", "address", "additional_details",
      "specifications", "views_no", "submitter_details", "phone", "relative_date">>

\* The extractors whose body is inside their own try / except, which returns
\* None: scrape_image (186-193), scrape_views_no (160-167), scrape_phone_number
\* (241-248), scrape_relative_date (113-130). The others let an exception of
\* a page or element call out: scrape_id (170-183), scrape_price (196-199),
\* scrape_address (202-208), scrape_additionalDetails_list (211-221),
\* scrape_specifications (224-238), scrape_submitter_details (251-275).
GuardedInSource == {"image", "views_no", "phone", "relative_date"}

\* scrape_description is called at DetailsScraper.py:288 and defined in no
\* file of src/; it is taken to be a field extractor as the specification
\* describes one: its internal failure is caught and yields None.
DescriptionGuarded == {"description"}

Guarded(f) == f \in GuardedInSource \cup DescriptionGuarded

\* The page calls of an extractor find the element, find none, or fail.
ExtractorOutcomes == {"found", "nothing", "fails"}

EmptyRecord == [f \in {} |-> "absent"]

\* Variant: after the last failed attempt the exception goes to the caller.
AttemptFailedRaises ==
    IF d_attempt + 1 = retries
    THEN /\ d_pc' = "raised"
         /\ UNCHANGED <<d_attempt, d_step, d_fields, d_result>>
    ELSE /\ d_pc' = "goto"
         /\ d_attempt' = d_attempt + 1
         /\ d_step' = 0
         /\ d_fields' = <<>>
         /\ UNCHANGED d_result

\* DetailsScraper.py:318-322  an attempt failed: the next attempt, or {} after the last.
AttemptFailed ==
    IF d_attempt + 1 = retries
    THEN /\ d_pc' = "returned"
         /\ d_result' = EmptyRecord
         /\ UNCHANGED <<d_attempt, d_step, d_fields>>
    ELSE /\ d_pc' = "goto"
         /\ d_attempt' = d_attempt + 1
         /\ d_step' = 0
         /\ d_fields' = <<>>
         /\ UNCHANGED d_result

\* DetailsScraper.py:300  browser.close()
BrowserClose(open, session) == open \ {session}

\* Variant: leaving the `async with` block leaves its browser running.
ExitPlaywrightLeavesOpen(open, session) == open

\* DetailsScraper.py:282  leaving the `async with async_playwright()` block,
\* by return or by an exception, stops Playwright and with it the browser
\* launched from it.
ExitPlaywright(open, session) == open \ {session}

UnchangedByDetails ==
    UNCHANGED <<automotives_data, site, max_concurrent_links, pc, folders, folder_id,
                setup_errors, chunk_index, task, semaphore, tasks, awaited, pending_uploads,
                disk, file_i, attempt, uploaded_files, save_calls, skipped, gave_up,
                drive_files, fileVars, current_time, chunkerVars, pageVars>>

\* DetailsScraper.py:46, 278-280  get_animal_details calls scrape_more_details(link)
\* for a card of the list page.
DetailsCalled ==
    /\ d_pc = "idle"
    /\ d_pc' = "goto"
    /\ d_attempt' = 0
    /\ d_step' = 0
    /\ d_fields' = <<>>
    /\ d_result' = <<>>
    /\ d_launched' = 0
    /\ d_open' = {}
    /\ event' = [op |-> "details_called"]
    /\ UNCHANGED d_animals
    /\ UnchangedByDetails

\* DetailsScraper.py:282-285  the browser, the page and page.goto of one
\* attempt: a browser is launched in every attempt, and when new_page or
\* goto raises the exception leaves the `async with` block.
Goto ==
    /\ d_pc = "goto"
    /\ LET session == d_launched + 1
       IN  \E ok \in BOOLEAN :
              /\ d_launched' = session
              /\ IF ok
                 THEN /\ d_pc' = "extract"
                      /\ d_step' = 1
                      /\ d_fields' = EmptyRecord
                      /\ d_open' = d_open \cup {session}
                      /\ UNCHANGED <<d_attempt, d_result>>
                 ELSE /\ AttemptFailed
                      /\ d_open' = ExitPlaywright(d_open \cup {session}, session)
              /\ event' = [op |-> "goto", attempt |-> d_attempt, ok |-> ok,
                           session |-> session, open_before |-> d_open]
    /\ UNCHANGED d_animals
    /\ UnchangedByDetails

\* DetailsScraper.py:298  date_published = scrape_publish_date(relative_date)
\* if relative_date else None: None (absent) and "" are falsy.
WithDatePublished(fields) ==
    [f \in DOMAIN fields \cup {"date_published"} |->
        IF f = "date_published"
        THEN (IF fields["relative_date"] = "absent" \/ CharsOf(fields["relative_date"]) = <<>>
              THEN None
              ELSE scrape_publish_date(CharsOf(fields["relative_date"])))
        ELSE fields[f]]

\* Variant: the record is assembled but the loop over attempts goes on.
AttemptSucceededGoesOn(fields) ==
    /\ d_result' = WithDatePublished(fields)
    /\ IF d_attempt + 1 < retries
       THEN /\ d_pc' = "goto"
            /\ d_attempt' = d_attempt + 1
            /\ d_step' = 0
            /\ d_fields' = <<>>
       ELSE /\ d_pc' = "returned"
            /\ d_fields' = fields
            /\ UNCHANGED <<d_attempt, d_step>>

\* DetailsScraper.py:298-316  the attempt ran through: the record is returned
\* from inside the loop over attempts.
AttemptSucceeded(fields) ==
    /\ d_pc' = "returned"
    /\ d_result' = WithDatePublished(fields)
    /\ d_fields' = fields
    /\ UNCHANGED <<d_attempt, d_step>>

\* What an extractor returns when it found its element: a text for
\* scrape_relative_date, some value for the others.
FoundValues(f) == IF f = "relative_date" THEN RelativeTimes ELSE {"value"}

\* DetailsScraper.py:287-316  one extractor call of the attempt; after the
\* last one the record is assembled and returned.
Extract ==
    /\ d_pc = "extract"
    /\ LET f == Extractors[d_step]
       IN  \E outcome \in ExtractorOutcomes :
              \E found \in (IF outcome = "found" THEN FoundValues(f) ELSE {"absent"}) :
                 /\ IF outcome = "fails" /\ ~Guarded(f)
                    THEN /\ AttemptFailed
                         /\ d_open' = ExitPlaywright(d_open, d_launched)
                    ELSE LET fields == [g \in DOMAIN d_fields \cup {f} |->
                                           IF g = f THEN found ELSE d_fields[g]]
                         IN  IF d_step < Len(Extractors)
                             THEN /\ d_step' = d_step + 1
                                  /\ d_fields' = fields
                                  /\ UNCHANGED <<d_pc, d_attempt, d_result, d_open>>
                             ELSE /\ AttemptSucceeded(fields)
                                  /\ d_open' = ExitPlaywright(BrowserClose(d_open, d_launched),
                                                              d_launched)
                 /\ event' = [op |-> "extract", attempt |-> d_attempt, field |-> f,
                              outcome |-> outcome, before |-> d_fields,
                              session |-> d_launched]
    /\ UNCHANGED <<d_animals, d_launched>>
    /\ UnchangedByDetails

\* DetailsScraper.py:40-43  the keys of a record that are read from the card.
SummaryKeys == {"link", "type", "title", "pin"}
\* DetailsScraper.py:50-67  the keys read from what scrape_more_details
\* returned (submitter, ads and membership are kept as submitter_details).
DetailKeys == {Extractors[i] : i \in DOMAIN Extractors} \cup {"date_published"}
\* dict.get(key): None when the key is missing.
Get(details, key) ==
    IF key \in DOMAIN details THEN details[key]
    ELSE IF key = "date_published" THEN None ELSE "absent"

\* DetailsScraper.py:49-68  the record of one card.
CardRecord(details) ==
    [key \in SummaryKeys \cup DetailKeys |->
        IF key \in SummaryKeys THEN "card" ELSE Get(details, key)]

\* DetailsScraper.py:46-68  scrape_more_details has returned: the card's
\* record is appended to animals.
AppendCard ==
    /\ d_pc = "returned"
    /\ d_animals' = Append(d_animals, CardRecord(d_result))
    /\ d_pc' = "appended"
    /\ event' = [op |-> "append", details |-> d_result]
    /\ UNCHANGED <<d_attempt, d_step, d_fields, d_result, d_launched, d_open>>
    /\ UnchangedByDetails

\* ------------------------------------------------------ get_animal_details

\* DetailsScraper.py:14  DetailsScraping(url, retries=3); main.py:48 passes
\* no retries.
self_retries == 3

UnchangedByPage ==
    UNCHANGED <<automotives_data, site, max_concurrent_links, pc, folders, folder_id,
                setup_errors, chunk_index, task, semaphore, tasks, awaited, pending_uploads,
                disk, file_i, attempt, uploaded_files, save_calls, skipped, gave_up,
                drive_files, fileVars, current_time, chunkerVars, detailVars>>

\* DetailsScraper.py:19-28  the browser, its first page, and animals = []
\* before the loop over attempts.
PageCalled ==
    /\ g_pc = "idle"
    /\ g_pc' = "goto"
    /\ g_attempt' = 0
    /\ g_animals' = <<>>
    /\ g_opened' = 1
    /\ g_page' = 1
    /\ g_pages' = {1}
    /\ g_used' = {}
    /\ g_cards' = 0
    /\ g_card' = 0
    /\ g_exit' = "none"
    /\ event' = [op |-> "page_called"]
    /\ UnchangedByPage

\* DetailsScraper.py:71-75  the except clause: break after the last attempt,
\* otherwise the loop goes to the next attempt; the finally clause runs first.
Except ==
    /\ g_pc' = "finally"
    /\ g_exit' = IF g_attempt + 1 = self_retries THEN "break" ELSE "next"

\* DetailsScraper.py:33-37  page.goto, wait_for_selector and
\* query_selector_all of one attempt: they raise (navigation failed, or no
\* card showed within the timeout), or the page has some cards.
ListGoto ==
    /\ g_pc = "goto"
    /\ g_used' = g_used \cup {g_page}
    /\ \E ok \in BOOLEAN :
          /\ IF ok
             THEN \E n \in 1..MaxCards :
                      /\ g_cards' = n
                      /\ g_card' = 1
                      /\ g_pc' = "cards"
                      /\ UNCHANGED g_exit
             ELSE /\ Except
                  /\ UNCHANGED <<g_cards, g_card>>
          /\ event' = [op |-> "list_goto", attempt |-> g_attempt, ok |-> ok,
                       page |-> g_page, used_before |-> g_used, open |-> g_pages]
    /\ UNCHANGED <<g_attempt, g_animals, g_page, g_opened, g_pages>>
    /\ UnchangedByPage

\* DetailsScraper.py:38-69  one card of the page: the calls on the card
\* (40-43) raise, or the card's record is appended (scrape_more_details
\* returns a record or {}); after the last card the loop over attempts is
\* left by the break of line 69.
Card ==
    /\ g_pc = "cards"
    /\ \E outcome \in {"appended", "raises"} :
          /\ IF outcome = "raises"
             THEN /\ Except
                  /\ UNCHANGED <<g_animals, g_card>>
             ELSE /\ g_animals' = Append(g_animals, g_card)
                  /\ IF g_card < g_cards
                     THEN /\ g_card' = g_card + 1
                          /\ UNCHANGED <<g_pc, g_exit>>
                     ELSE /\ g_pc' = "finally"
                          /\ g_exit' = "break"
                          /\ UNCHANGED g_card
          /\ event' = [op |-> "card", attempt |-> g_attempt, card |-> g_card,
                       outcome |-> outcome, before |-> g_animals]
    /\ UNCHANGED <<g_attempt, g_cards, g_page, g_opened, g_pages, g_used>>
    /\ UnchangedByPage

\* DetailsScraper.py:76-79  the finally clause of an attempt: the page is
\* closed, and a new one opened when attempts remain; page.close() or
\* browser.new_page() may raise, and the exception then leaves
\* get_animal_details through the `async with` block of line 20.
Finally ==
    /\ g_pc = "finally"
    /\ \E ok \in BOOLEAN :
          /\ IF ~ok
             THEN /\ g_pc' = "raised"
                  /\ g_pages' = {}
                  /\ UNCHANGED <<g_attempt, g_page, g_opened>>
             ELSE /\ IF g_attempt + 1 < self_retries
                     THEN /\ g_opened' = g_opened + 1
                          /\ g_page' = g_opened + 1
                          /\ g_pages' = (g_pages \ {g_page}) \cup {g_opened + 1}
                     ELSE /\ g_pages' = g_pages \ {g_page}
                          /\ UNCHANGED <<g_page, g_opened>>
                  /\ IF g_exit = "break"
                     THEN /\ g_pc' = "after_loop"
                          /\ UNCHANGED g_attempt
                     ELSE /\ g_pc' = "goto"
                          /\ g_attempt' = g_attempt + 1
          /\ event' = [op |-> "finally", attempt |-> g_attempt, ok |-> ok,
                       page |-> g_page, exit |-> g_exit]
    /\ UNCHANGED <<g_cards, g_card, g_animals, g_used, g_exit>>
    /\ UnchangedByPage

\* DetailsScraper.py:81-82  await browser.close(); return animals
Return ==
    /\ g_pc = "after_loop"
    /\ g_pc' = "returned"
    /\ g_pages' = {}
    /\ event' = [op |-> "return", animals |-> g_animals, open_before |-> g_pages]
    /\ UNCHANGED <<g_attempt, g_cards, g_card, g_animals, g_page, g_opened, g_used, g_exit>>
    /\ UnchangedByPage

\* ------------------------------------------------------------ specification

Next ==
    \/ Setup
    \/ SpawnTask
    \/ \E c \in Categories : Acquire(c)
    \/ \E c \in Categories : PageReturns(c)
    \/ \E c \in Categories : PageRaises(c)
    \/ \E c \in Categories : SleepEnds(c)
    \/ AwaitTask
    \/ UploadAttempt
    \/ Cleanup
    \/ ChunkEnd
    \/ \E f \in Categories : FileVanishes(f)

Spec == Init /\ [][Next]_vars

SpecWalker == InitWalker /\ [][Next]_vars

\* Every operation the program waits for returns or raises (a page, a sleep,
\* a file write, an upload, authenticate), and the event loop runs every
\* coroutine that can run. Nothing is asked of the environment's FileVanishes.
Fairness ==
    /\ WF_vars(Setup)
    /\ WF_vars(SpawnTask)
    /\ \A c \in Categories : WF_vars(Acquire(c))
    /\ \A c \in Categories : WF_vars(PageReturns(c) \/ PageRaises(c))
    /\ \A c \in Categories : WF_vars(SleepEnds(c))
    /\ WF_vars(AwaitTask)
    /\ WF_vars(UploadAttempt)
    /\ WF_vars(Cleanup)
    /\ WF_vars(ChunkEnd)

\* A run over NumCategories categories of one page each, on a site all of
\* whose listings are of the target day, with the folder in place.
InitFair ==
    /\ automotives_data \in [Categories -> UrlLists]
    /\ site = {PublishedYesterday}
    /\ max_concurrent_links \in 1..DefaultMaxConcurrentLinks
    /\ folders = {1}
    /\ current_time = MorningAfter
    /\ Started
    /\ ChunkerIdle

SpecFair == InitFair /\ [][Next]_vars /\ Fairness

\* get_animal_details at one card of a list page: the call of
\* scrape_more_details and the record appended for the card.
InitDetails ==
    /\ automotives_data = [c \in Categories |-> <<>>]
    /\ site = {}
    /\ max_concurrent_links = DefaultMaxConcurrentLinks
    /\ folders = {}
    /\ current_time \in Nows
    /\ Started
    /\ ChunkerIdle

NextDetails ==
    \/ DetailsCalled
    \/ Goto
    \/ Extract
    \/ AppendCard

SpecDetails == InitDetails /\ [][NextDetails]_vars

\* get_animal_details on one list page of up to MaxCards cards.
InitPage ==
    /\ automotives_data = [c \in Categories |-> <<>>]
    /\ site = {}
    /\ max_concurrent_links = DefaultMaxConcurrentLinks
    /\ folders = {}
    /\ current_time = MorningAfter
    /\ Started
    /\ ChunkerIdle

NextPage ==
    \/ PageCalled
    \/ ListGoto
    \/ Card
    \/ Finally
    \/ Return

SpecPage == InitPage /\ [][NextPage]_vars

\* The partition into chunks on its own, for any list of distinct category
\* names and any chunk_size from 1.
ItemLists == {items \in SeqsUpTo(1..MaxItems, MaxItems) :
                 \A i, j \in DOMAIN items : items[i] = items[j] => i = j}

InitChunks ==
    /\ automotives_data = [c \in Categories |-> <<>>]
    /\ site = {}
    /\ max_concurrent_links = DefaultMaxConcurrentLinks
    /\ folders = {}
    /\ current_time = MorningAfter
    /\ Started
    /\ k_pc = "start"
    /\ k_items \in ItemLists
    /\ k_chunk_size \in 1..MaxChunkSize
    /\ k_chunks = <<>>

\* main.py:127-130  automotive_chunks = [list(items())[i:i + chunk_size] for i in range(...)]
MakeChunks ==
    /\ k_pc = "start"
    /\ k_chunks' = Chunks(k_items, k_chunk_size)
    /\ k_pc' = "chunked"
    /\ event' = [op |-> "chunks"]
    /\ UNCHANGED <<k_items, k_chunk_size, automotives_data, site, max_concurrent_links, pc,
                   folders, folder_id, setup_errors, chunk_index, task, semaphore, tasks,
                   awaited, pending_uploads, disk, file_i, attempt, uploaded_files, save_calls,
                   skipped, gave_up, drive_files, fileVars, current_time, detailVars,
                   pageVars>>

NextChunks == MakeChunks

SpecChunks == InitChunks /\ [][NextChunks]_vars

\* ------------------------------------------------------------------ claims

Range(s) == {s[i] : i \in DOMAIN s}
Running(c) == task[c].st \in {"fetch", "sleep"}
TaskOver(c) == task[c].st \in {"done", "failed"}

\* The date portion of a timestamp: the text before its first whitespace.
RECURSIVE FirstSpace(_, _)
FirstSpace(s, i) == IF i > Len(s) THEN Len(s) + 1 ELSE IF s[i] = " " THEN i ELSE FirstSpace(s, i + 1)
DatePortion(s) == SubSeq(s, 1, FirstSpace(s, 1) - 1)
IsOfYesterday(animal) ==
    /\ ~IsNone(animal.date_published)
    /\ DatePortion(animal.date_published[2]) = yesterday

\* C1: os.remove deletes a local file only if a save_files call for it
\* returned in upload_files_with_retry; a file whose upload failed on every
\* attempt is not deleted. (The code deletes every file of pending_uploads.)
C1_DeleteOnlyAfterUpload ==
    event.op = "cleanup" =>
        /\ event.removed \subseteq Range(uploaded_files)
        /\ event.removed \cap gave_up = {}

\* C2: at most max_concurrent_links tasks are inside the semaphore-guarded
\* section at any time, also when chunk_size is greater than the capacity.
C2_AtMostCapacityRunning ==
    Cardinality({c \in Categories : Running(c)}) <= max_concurrent_links

\* A chunk of two tasks with one slot: one runs, the other waits.
C2_Witness ==
    /\ max_concurrent_links < chunk_size
    /\ \E c, d \in Categories : Running(c) /\ task[d].st = "waiting" /\ semaphore = 0

\* C3: every record of the list scrape_automotive returns has a
\* date_published whose date portion is self.yesterday; none has another
\* date, a sentinel string or None.
C3_ReturnedRecordsAreOfYesterday ==
    /\ \A c \in Categories :
          task[c].st = "done" =>
             \A i \in DOMAIN task[c].animal_data : IsOfYesterday(task[c].animal_data[i])
    /\ (event.op = "awaited" /\ event.st = "done") =>
          \A i \in DOMAIN event.animal_data : IsOfYesterday(event.animal_data[i])

\* The task has returned a non-empty list right after a page that also
\* held a record that is not of yesterday.
C3_Witness ==
    /\ event.op = "page"
    /\ task[event.c].st = "done"
    /\ task[event.c].animal_data # <<>>
    /\ \E i \in DOMAIN event.animals : ~IsOfYesterday(event.animals[i])

\* C4: every record of a page whose date portion is the target date is kept,
\* whatever the other records of the page are. (A record without
\* date_published before it makes the filter raise and the rest is skipped.)
C4_EveryMatchingRecordKept ==
    event.op = "page" =>
        event.after = event.before \o SelectSeq(event.animals, IsOfYesterday)

\* C5: when a field extractor fails, the attempt goes on: the field is
\* absent and the values of the fields read before are kept. (An extractor
\* without its own try / except aborts the attempt.)
C5_ExtractorFailureIsLocal ==
    (event.op = "extract" /\ event.outcome = "fails") =>
        /\ d_attempt = event.attempt
        /\ d_pc \in {"extract", "returned"}
        /\ event.field \in DOMAIN d_fields
        /\ d_fields[event.field] = "absent"
        /\ \A g \in DOMAIN event.before : d_fields[g] = event.before[g]
        /\ d_pc = "returned" => \A g \in DOMAIN d_fields : d_result[g] = d_fields[g]

\* C6: when the attempt loop leaves a file that was on disk at every attempt
\* and whose every save_files call raised, exactly upload_retries calls were
\* made, the failure is logged, the file is not in uploaded_files, and the
\* loop is at the first attempt of the next file (or has returned).
C6_ExactlyUploadRetriesCalls ==
    event.op = "upload" =>
        /\ event.save_calls <= upload_retries
        /\ (event.outcome = "raise" /\ event.skipped = 0 /\ file_i # event.file_i) =>
              /\ event.save_calls = upload_retries
              /\ event.logged_failed
              /\ event.file \notin Range(uploaded_files)
              /\ file_i = event.file_i + 1
              /\ attempt = 0
              /\ pc = IF file_i <= Len(pending_uploads) THEN "upload" ELSE "cleanup"

\* The first file was given up after upload_retries calls and the second is next.
C6_Witness ==
    /\ event.op = "upload"
    /\ event.outcome = "raise"
    /\ event.skipped = 0
    /\ event.save_calls = upload_retries
    /\ event.file_i = 1
    /\ file_i = 2
    /\ pc = "upload"

\* C7: when a folder named after the target date exists, the setup uses its
\* id and does not call create_folder; there is never a second folder of that
\* name. (A query that raises is taken for "no folder" and one is created.)
C7_ExistingFolderReused ==
    /\ Cardinality(folders) <= 1
    /\ (event.op = "setup" /\ event.existing # {}) =>
          /\ ~event.create_folder
          /\ pc # "aborted" => folder_id \in event.existing

\* C8: while a task of a chunk exists, every task of every earlier chunk is
\* over and the earlier chunk's files are written, uploaded and cleaned up:
\* none is pending and none is on disk.
C8_ChunksNeverOverlap ==
    \A c, d \in Categories :
        (task[c].st # "none" /\ ChunkOf(d) < ChunkOf(c)) =>
            /\ TaskOver(d)
            /\ ChunkOf(c) <= chunk_index
            /\ d \notin Range(pending_uploads)
            /\ d \notin Range(tasks)
            /\ d \notin disk

\* A task of the second chunk runs after a file of the first chunk was uploaded.
C8_Witness ==
    \E c, d \in Categories :
        /\ ChunkOf(d) < ChunkOf(c)
        /\ Running(c)
        /\ drive_files[d] = 1

\* C9: a task that raised does not end the run: the result of every other
\* task is still saved and queued, the upload loop goes through every queued
\* file, and the run ends only after the tasks of every chunk are over.
C9_TaskFailureContained ==
    /\ pc # "crashed"
    /\ (event.op = "awaited" /\ event.st = "done" /\ event.animal_data # <<>> /\ event.write_ok) =>
          event.c \in Range(pending_uploads)
    /\ (pc \in {"cleanup", "chunk_end"} /\ pending_uploads # <<>>) =>
          file_i = Len(pending_uploads) + 1
    /\ pc = "done" => \A c \in Categories : TaskOver(c)

\* The run is over; a task of the first chunk raised, its sibling's file and
\* a file of the next chunk were uploaded.
C9_Witness ==
    /\ pc = "done"
    /\ \E c, d, e \in Categories :
          /\ c # d
          /\ ChunkOf(c) = ChunkOf(d)
          /\ ChunkOf(c) < ChunkOf(e)
          /\ task[c].st = "failed"
          /\ drive_files[d] = 1
          /\ drive_files[e] = 1

\* C10: when anything in the setup failed (credentials, authenticate, the
\* folder query, create_folder), the run has returned and no task was
\* created, no file written, no upload attempted. (A failed folder query
\* does not fail the setup: the folder is created and the run goes on.)
C10_SetupFailureIsFatal ==
    setup_errors # {} =>
        /\ pc = "aborted"
        /\ \A c \in Categories : task[c].st = "none" /\ drive_files[c] = 0
        /\ disk = {}
        /\ pending_uploads = <<>>

\* C11: the page_delay sleep follows every page of scrape_automotive, whether
\* get_animal_details and the filter returned or raised. (The sleep is the
\* last statement of the try: a page that raised goes on without it.)
C11_DelayAfterEveryPage ==
    event.op \in {"page", "page_error"} => task[event.c].st = "sleep"

\* The page of a step that ended in the except clause of main.py:56-58.
PageFailed == event.op = "page_error" \/ (event.op = "page" /\ event.raised)
WellFormed(c) == \A u \in DOMAIN automotives_data[c] : automotives_data[c][u].well_formed

C13_NonMatchingDroppedSilently ==
    event.op = "page" =>
        /\ ~event.raised
        /\ task[event.c].st = "sleep"
        /\ event.after = event.before \o SelectSeq(event.animals, IsOfYesterday)

\* The shape "<number> <word>": digits, whitespace, then one word.
NumberThenWord(s) ==
    \E i \in 1..Len(s), j \in 1..Len(s) :
        /\ i < j
        /\ j < Len(s)
        /\ \A k \in 1..i : s[k] \in Digits
        /\ \A k \in (i + 1)..j : s[k] \in Whitespace
        /\ \A k \in (j + 1)..Len(s) : s[k] \notin Digits \cup Whitespace
\* The word of such a text, and whether it is (or begins with) a unit of the table.
WordOf(s) == SubSeq(s, 1 + CHOOSE j \in 1..Len(s) : s[j] \in Whitespace /\ \A k \in (j + 1)..Len(s) : s[k] \notin Whitespace, Len(s))
InUnitTable(word) == \E n \in DOMAIN PatternUnits : StandsAt(word, 1, PatternUnits[n])

\* C14: scrape_publish_date gives "Unsupported time unit found." for a number
\* followed by a unit that is not in the unit table (a week, a year), and
\* "Invalid Relative Time" only for a text that is not a number and a word.
\* (The pattern lists the units of the table only: such a text does not match.)
C14_UnmappedUnitIsUnsupported ==
    (d_pc = "returned" /\ "relative_date" \in DOMAIN d_result /\ d_result["relative_date"] \notin {"absent", ""}) =>
        LET relative_time == CharsOf(d_result["relative_date"])
            date_published == d_result["date_published"]
        IN  /\ (NumberThenWord(relative_time) /\ ~InUnitTable(WordOf(relative_time))) =>
                  date_published = UnsupportedTimeUnit
            /\ date_published = InvalidRelativeTime => ~NumberThenWord(relative_time)

\* An attempt of scrape_more_details ended in its except clause.
AttemptFailedEvent ==
    \/ event.op = "goto" /\ ~event.ok
    \/ event.op = "extract" /\ event.outcome = "fails" /\ ~Guarded(event.field)
\* The last extractor of an attempt returned.
AttemptSucceededEvent ==
    /\ event.op = "extract"
    /\ event.field = Extractors[Len(Extractors)]
    /\ ~(event.outcome = "fails" /\ ~Guarded(event.field))

\* C16: scrape_more_details does not raise to get_animal_details: when its
\* last attempt fails it returns {}, and the record appended for the card
\* has the card's summary fields and None for every detail.
C16_DetailsNeverRaise ==
    /\ d_pc # "raised"
    /\ (AttemptFailedEvent /\ event.attempt = retries - 1) =>
          d_pc = "returned" /\ d_result = EmptyRecord
    /\ event.op = "append" =>
          /\ Len(d_animals) = 1
          /\ \A key \in SummaryKeys : d_animals[1][key] = "card"
          /\ DOMAIN d_animals[1] = SummaryKeys \cup DetailKeys
          /\ event.details = EmptyRecord =>
                /\ d_animals[1]["date_published"] = None
                /\ \A key \in DetailKeys \ {"date_published"} : d_animals[1][key] = "absent"

\* The record of a card whose three attempts all failed was appended.
C16_Witness ==
    /\ event.op = "append"
    /\ event.details = EmptyRecord
    /\ d_attempt = retries - 1
    /\ Len(d_animals) = 1

\* C17: scrape_more_details makes at most `retries` attempts, the next one
\* only right after the one before failed, and returns the assembled record
\* at the first attempt that runs through.
C17_AttemptsUntilFirstSuccess ==
    /\ d_attempt \in 0..(retries - 1)
    /\ (d_pc = "goto" /\ d_attempt > 0) => (AttemptFailedEvent /\ event.attempt = d_attempt - 1)
    /\ AttemptSucceededEvent =>
          /\ d_pc = "returned"
          /\ d_attempt = event.attempt
          /\ DOMAIN d_result = DetailKeys
          /\ \A f \in DOMAIN d_fields : d_result[f] = d_fields[f]
    /\ (d_pc \in {"returned", "appended"} /\ d_result # EmptyRecord) =>
          (AttemptSucceededEvent \/ event.op = "append")

\* The second attempt ran through after the first one failed.
C17_Witness ==
    /\ AttemptSucceededEvent
    /\ d_pc = "returned"
    /\ d_attempt = 1
    /\ DOMAIN d_result = DetailKeys

\* C15: an attempt that finds the file missing calls nothing and raises
\* nothing: no save_files call, no sleep, no re-authentication, no failure
\* logged; the file is not in uploaded_files, and the loops go on to the next
\* attempt and, after the last, to the next file of the list.
C15_MissingFileSkipped ==
    (event.op = "upload" /\ ~event.on_disk) =>
        /\ event.outcome = "missing"
        /\ event.save_calls + event.skipped = event.attempt + 1
        /\ event.skipped = upload_retries => event.save_calls = 0
        /\ ~event.slept
        /\ event.reauth = "none"
        /\ ~event.logged_failed
        /\ event.file \notin Range(uploaded_files)
        /\ event.file \notin gave_up
        /\ drive_files[event.file] = 0
        /\ IF event.attempt + 1 < upload_retries
           THEN pc = "upload" /\ file_i = event.file_i /\ attempt = event.attempt + 1
           ELSE /\ file_i = event.file_i + 1
                /\ attempt = 0
                /\ pc = IF file_i <= Len(pending_uploads) THEN "upload" ELSE "cleanup"

\* The first file was missing at each of its attempts and the second is next.
C15_Witness ==
    /\ event.op = "upload"
    /\ event.outcome = "missing"
    /\ event.skipped = upload_retries
    /\ event.file_i = 1
    /\ file_i = 2
    /\ pc = "upload"

\* C18: at the end of a run in which no file write failed and no file was
\* missing or given up, every category whose task returned records has
\* exactly one file on Drive, with one row per record, and a category whose
\* task returned none has no file on Drive; no file is ever written for an
\* empty result, and no category ever has two files.
C18_OneFilePerCategoryWithData ==
    /\ \A c \in Categories : drive_files[c] <= 1
    /\ disk \subseteq {c \in Categories : retained[c] > 0}
    /\ (event.op = "awaited" /\ event.animal_data = <<>>) =>
          event.c \notin disk /\ event.c \notin Range(pending_uploads)
    /\ (pc = "done" /\ ~faulted) =>
          \A c \in Categories :
             /\ retained[c] > 0 => drive_files[c] = 1 /\ drive_rows[c] = retained[c]
             /\ retained[c] = 0 => drive_files[c] = 0

\* The run is over without a fault: a category of two records and one of
\* one record have their files on Drive, and a category returned no record.
C18_Witness ==
    /\ pc = "done"
    /\ ~faulted
    /\ \E c, d, e \in Categories :
          /\ retained[c] = 2 /\ drive_rows[c] = 2
          /\ retained[d] = 1 /\ drive_rows[d] = 1
          /\ retained[e] = 0 /\ task[e].st = "done" /\ drive_files[e] = 0

RECURSIVE Concat(_)
Concat(ss) == IF ss = <<>> THEN <<>> ELSE ss[1] \o Concat(Tail(ss))

\* C19: n categories are partitioned into ceil(n / chunk_size) chunks, each
\* of chunk_size categories except the last, which has from 1 to chunk_size;
\* the chunks put end to end are the original list; 5 categories in chunks
\* of 2 give sizes [2, 2, 1].
C19_ChunksPartitionInOrder ==
    k_pc = "chunked" =>
        LET n == Len(k_items)
            m == Len(k_chunks)
        IN  /\ m = (n + k_chunk_size - 1) \div k_chunk_size
            /\ \A k \in 1..(m - 1) : Len(k_chunks[k]) = k_chunk_size
            /\ m > 0 => Len(k_chunks[m]) \in 1..k_chunk_size
            /\ Concat(k_chunks) = k_items
            /\ (n = 5 /\ k_chunk_size = 2) => [k \in 1..m |-> Len(k_chunks[k])] = <<2, 2, 1>>

\* Five categories were partitioned into chunks of 2.
C19_Witness ==
    /\ k_pc = "chunked"
    /\ Len(k_items) = 5
    /\ k_chunk_size = 2
    /\ Len(k_chunks) = 3
    /\ Len(k_chunks[3]) = 1

\* C20: an upload attempt of a chunk is made only when every task of the
\* chunk is over (returned or raised) and was awaited, whatever the order in
\* which the tasks ran.
C20_UploadsAfterAllTasks ==
    (pc \in {"upload", "cleanup"} \/ event.op = "upload") =>
        /\ Len(tasks) = Len(automotive_chunks[chunk_index])
        /\ awaited = Len(tasks)
        /\ \A c \in Range(automotive_chunks[chunk_index]) : TaskOver(c)

\* The first upload attempt of a chunk of two tasks, one of which raised.
C20_Witness ==
    /\ event.op = "upload"
    /\ event.file_i = 1
    /\ event.attempt = 0
    /\ Len(tasks) = chunk_size
    /\ \E c, d \in Range(tasks) : task[c].st = "failed" /\ task[d].st = "done"

\* s is t with some elements left out, the others in t's order.
RECURSIVE IsSubsequence(_, _)
IsSubsequence(s, t) ==
    IF s = <<>> THEN TRUE
    ELSE IF t = <<>> THEN FALSE
    ELSE IF Head(s) = Head(t) THEN IsSubsequence(Tail(s), Tail(t))
    ELSE IsSubsequence(s, Tail(t))
IndexIn(s, x) == CHOOSE i \in DOMAIN s : s[i] = x

\* C21: uploaded_files holds a file of the input exactly when a save_files
\* call for it returned, once, in the order of the input; after that call no
\* further attempt is made for the file.
C21_ReturnsUploadedSubset ==
    /\ IsSubsequence(uploaded_files, pending_uploads)
    /\ \A i, j \in DOMAIN uploaded_files : uploaded_files[i] = uploaded_files[j] => i = j
    /\ \A f \in Range(pending_uploads) :
          /\ f \in Range(uploaded_files) <=> drive_files[f] >= 1
          /\ drive_files[f] <= 1
          /\ f \in Range(uploaded_files) => IndexIn(pending_uploads, f) < file_i
    /\ Range(uploaded_files) \cap gave_up = {}
    /\ (event.op = "upload" /\ event.outcome = "ok") =>
          /\ uploaded_files[Len(uploaded_files)] = event.file
          /\ file_i = event.file_i + 1
          /\ attempt = 0

\* upload_files_with_retry has returned the second of two files: the first
\* was given up.
C21_Witness ==
    /\ pc = "cleanup"
    /\ Len(pending_uploads) = 2
    /\ uploaded_files = <<pending_uploads[2]>>
    /\ pending_uploads[1] \in gave_up

\* C23: save_to_excel writes no file and returns None for an empty list;
\* for N >= 1 records it writes one file of N rows and returns its name when
\* the write succeeds, and returns None, raising nothing, when it fails.
C23_SaveToExcel ==
    (event.op = "awaited" /\ event.st = "done") =>
        LET c == event.c
            N == Len(event.animal_data)
        IN  /\ pc # "crashed"
            /\ N = 0 => event.excel_file = 0 /\ c \notin disk /\ file_rows[c] = 0
            /\ (N >= 1 /\ event.write_ok) =>
                  /\ event.excel_file = c
                  /\ c \in disk
                  /\ file_rows[c] = N
                  /\ Cardinality({i \in DOMAIN pending_uploads : pending_uploads[i] = c}) = 1
            /\ (N >= 1 /\ ~event.write_ok) =>
                  event.excel_file = 0 /\ c \notin Range(pending_uploads)

\* A list of two records was written to a file of two rows.
C23_Witness ==
    /\ event.op = "awaited"
    /\ event.st = "done"
    /\ Len(event.animal_data) = 2
    /\ event.excel_file = event.c
    /\ file_rows[event.c] = 2

\* C27: a failed upload attempt that is not the last is followed by the
\* sleep and a call of authenticate, and whether that call returns or raises
\* the next attempt for the same file is made; the last failed attempt is
\* followed by neither, and the failure is logged.
C27_SleepAndReauthBetweenAttempts ==
    (event.op = "upload" /\ event.outcome = "raise") =>
        IF event.attempt < upload_retries - 1
        THEN /\ event.slept
             /\ event.reauth \in {"ok", "raise"}
             /\ ~event.logged_failed
             /\ pc = "upload"
             /\ file_i = event.file_i
             /\ attempt = event.attempt + 1
        ELSE /\ ~event.slept
             /\ event.reauth = "none"
             /\ event.logged_failed
             /\ file_i = event.file_i + 1

\* The re-authentication after the first failed attempt raised, and the
\* second attempt for the file is next.
C27_Witness ==
    /\ event.op = "upload"
    /\ event.outcome = "raise"
    /\ event.attempt = 0
    /\ event.reauth = "raise"
    /\ pc = "upload"
    /\ attempt = 1
    /\ file_i = event.file_i

\* The run has returned: from the setup, or after the last chunk with every
\* task over (a task is over only after it held a slot) and every slot free.
Finished ==
    \/ pc = "aborted"
    \/ /\ pc = "done"
       /\ \A c \in Categories : TaskOver(c)
       /\ semaphore = max_concurrent_links

\* C25: when every operation waited for returns or raises, the run ends;
\* by then every created task has held a slot of the semaphore (none waits
\* forever) and has given it back, whether it returned or raised.
C25_RunFinishes == <>Finished

\* With one slot, the run ended after a task of a chunk of two raised.
C25_Witness ==
    /\ pc = "done"
    /\ max_concurrent_links = 1
    /\ semaphore = 1
    /\ \E c, d \in Categories :
          c # d /\ ChunkOf(c) = ChunkOf(d) /\ task[c].st = "failed" /\ retained[d] > 0

\* The unit a word names, in seconds, whatever its case (0 for a month).
SecondsOfUnit(word) ==
    CASE StandsAt(word, 1, <<"s", "e", "c", "o", "n", "d">>) \/ StandsAt(word, 1, <<"THEH", "ALEF", "NOON", "YEH", "TEH_MARBUTA">>) -> 1
      [] StandsAt(word, 1, <<"m", "i", "n", "u", "t", "e">>) \/ StandsAt(word, 1, <<"DAL", "QAF", "YEH", "QAF", "TEH_MARBUTA">>) -> 60
      [] StandsAt(word, 1, <<"h", "o", "u", "r">>) \/ StandsAt(word, 1, <<"SEEN", "ALEF", "AIN", "TEH_MARBUTA">>) -> 3600
      [] StandsAt(word, 1, <<"d", "a", "y">>) \/ StandsAt(word, 1, <<"YEH", "WAW", "MEEM">>) -> 86400
      [] OTHER -> 0
\* The number a text "<n> <unit>" begins with.
NumberOf(s) == ToInt(SubSeq(s, 1, RunEnd(s, 1, Digits) - 1))
\* The count of days from a fixed day to the day y-mo-d (civil calendar, in closed form).
DayNumber(y, mo, d) ==
    LET yy == IF mo <= 2 THEN y - 1 ELSE y
        era == yy \div 400
        yoe == yy - era * 400
        mp == (mo + 9) % 12
        doy == (153 * mp + 2) \div 5 + d - 1
    IN  era * 146097 + yoe * 365 + yoe \div 4 - yoe \div 100 + doy
\* The timestamp a string "YYYY-MM-DD HH:MM:SS" spells.
Spelled(s) ==
    Datetime(ToInt(SubSeq(s, 1, 4)), ToInt(SubSeq(s, 6, 7)), ToInt(SubSeq(s, 9, 10)),
             ToInt(SubSeq(s, 12, 13)), ToInt(SubSeq(s, 15, 16)), ToInt(SubSeq(s, 18, 19)))
IsTimestamp(s) ==
    /\ Len(s) = 19
    /\ \A i \in 1..19 :
          IF i \in {5, 8} THEN s[i] = "-"
          ELSE IF i = 11 THEN s[i] = " "
          ELSE IF i \in {14, 17} THEN s[i] = ":"
          ELSE s[i] \in Digits
\* The seconds from t to u.
SecondsBetween(t, u) ==
    (DayNumber(u.year, u.month, u.day) - DayNumber(t.year, t.month, t.day)) * 86400
    + (u.hour - t.hour) * 3600 + (u.minute - t.minute) * 60 + (u.second - t.second)

\* C22: for a text "<n> <unit>" with a unit of the table, in either language
\* and any case, scrape_publish_date gives "YYYY-MM-DD HH:MM:SS" of the
\* clock reading less n of the unit: exactly n times the unit's seconds
\* earlier, or n calendar months earlier at the same time of day.
C22_PublishDateIsNowMinusN ==
    (d_pc = "returned" /\ "relative_date" \in DOMAIN d_result /\ d_result["relative_date"] \notin {"absent", ""}) =>
        LET relative_time == CharsOf(d_result["relative_date"])
            date_published == d_result["date_published"]
        IN  (NumberThenWord(relative_time) /\ InUnitTable(WordOf(relative_time))) =>
                LET n == NumberOf(relative_time)
                    unit == SecondsOfUnit(WordOf(relative_time))
                    t == Spelled(date_published[2])
                IN  /\ date_published[1] = "str"
                    /\ IsTimestamp(date_published[2])
                    /\ t.month \in 1..12 /\ t.day \in 1..31
                    /\ t.hour \in 0..23 /\ t.minute \in 0..59 /\ t.second \in 0..59
                    /\ unit > 0 => SecondsBetween(t, current_time) = n * unit
                    /\ unit = 0 =>
                          /\ (current_time.year * 12 + current_time.month) - (t.year * 12 + t.month) = n
                          /\ t.day <= current_time.day
                          /\ t.day < current_time.day =>
                                DayNumber(t.year, t.month, t.day) + 1
                                   = DayNumber(IF t.month = 12 THEN t.year + 1 ELSE t.year,
                                               IF t.month = 12 THEN 1 ELSE t.month + 1, 1)
                          /\ t.hour = current_time.hour
                          /\ t.minute = current_time.minute
                          /\ t.second = current_time.second

\* "12 HOURS" read at 10:00:00 of the second of June is 22:00:00 of the first.
C22_Witness ==
    /\ d_pc = "returned"
    /\ current_time = MorningAfter
    /\ "relative_date" \in DOMAIN d_result
    /\ d_result["relative_date"] = "12 HOURS"
    /\ d_result["date_published"] = Str(<<"2", "0", "2", "5", "-", "0", "6", "-", "0", "1", " ", "2", "2", ":", "0", "0", ":", "0", "0">>)

\* C24: the list get_animal_details returns for a list page holds each card of
\* the page at most once, also when an attempt failed after some cards were
\* appended and the page was retried.
C24_EachCardAtMostOnce ==
    g_pc = "returned" =>
        \A i, j \in DOMAIN g_animals : g_animals[i] = g_animals[j] => i = j

\* The list-page loop of get_animal_details keeps the same discipline: every
\* attempt navigates a page no earlier attempt navigated, the page of an
\* attempt is closed in its finally clause, and nothing is open once
\* get_animal_details has returned or raised.
PagePerAttemptClosed ==
    /\ g_pc \in {"returned", "raised"} => g_pages = {}
    /\ Cardinality(g_pages) <= 1
    /\ event.op = "list_goto" =>
          /\ event.page \notin event.used_before
          /\ event.open = {event.page}
    /\ (event.op = "finally" /\ event.ok) => event.page \notin g_pages

====
